---- MODULE Spec2Model ----
(***************************************************************************)
(* Model of mint.py: the XP re-distribution script.                        *)
(*                                                                         *)
(* The store (profiles, wallets, the user_transaction ledger) and the      *)
(* chain (the owner's submitted mint transactions and transaction count)   *)
(* are the state.  run() is modelled as RunStart followed by one RunIter   *)
(* per eligible tuple; mint_to_specific_wallet() is one action.  Store and *)
(* RPC calls may raise; the receipt status is chosen by the chain.         *)
(*                                                                         *)
(* Amounts on the chain are kept in whole tokens: web3.to_wei(x, 'ether')  *)
(* multiplies by 10^18, which is injective and does not fit TLC integers.  *)
(***************************************************************************)
EXTENDS Integers, Sequences, FiniteSets, TLC

VARIABLES
    xp_points,      \* user_userprofile.xp_points, by profile id (None = NULL)
    wallets,        \* user_wallet rows, in table order
    ledger,         \* user_transaction rows, in insertion order
    chain,          \* mint transactions submitted by the owner, in order
    txCount,        \* web3.eth.get_transaction_count(owner.address)
    pc,             \* "idle" or "run_loop" (inside the for loop of run)
    users,          \* run: the tuples returned by get_users()
    idx,            \* run: position of the next tuple of the loop
    nonce,          \* run: the local variable nonce
    nonce0,         \* run: the value nonce was fetched with (line 145)
    skips,          \* run: iterations left through `continue` (line 152)
    pending_result, \* run: what has_pending_transaction did in the last iteration
    iterLedger,     \* ledger at the start of the last iteration / operation
    iterChain,      \* chain at the start of the last iteration / operation
    iterTxCount,    \* txCount at the start of the last iteration / operation
    processed,      \* run: the tuples the loop body has been entered with, in order
    preLen,         \* number of ledger rows that predate the script's first run
    lost,           \* tx hashes minted with status 1 whose ledger insert raised
    lastOp,         \* "none", "run" or "single": the operation last started
    lastResult,     \* "running", "returned" or "raised": how it ended
    lastFault,      \* the call that raised last in it ("none" when none did)
    ops             \* number of operations started

vars == <<xp_points, wallets, ledger, chain, txCount, pc, users, idx, nonce,
          nonce0, skips, pending_result, iterLedger, iterChain, iterTxCount,
          processed, preLen, lost,
          lastOp, lastResult, lastFault, ops>>

-----------------------------------------------------------------------------
(* Bounds *)

MaxXp == 3
MaxOps == 2

-----------------------------------------------------------------------------
(* Constants of the program and of the store *)

None == -1                      \* Python None / SQL NULL for xp_points
NoHash == 0                     \* mint_xp returning None (no tx hash)
CHAIN_ID == 97
MintXpParams == 6               \* mint_xp(wallet_address, amount, nonce, web3, contract, owner)
RunMintArgs == 5                \* run: mint_xp(wallet_address, Decimal(xp_to_mint), nonce, web3, contract)
SingleMintArgs == 6             \* single: mint_xp(wallet_address, xp_to_mint, nonce, web3, contract, owner)
NoReceipt == 2                  \* wait_for_transaction_receipt timed out

target_address == "0x377B"

Profiles == {1, 2}

username(p) == IF p = 1 THEN "alice" ELSE "bob"

XpValues == {None} \cup (0..MaxXp)

Wallet(id, user, addr) == [id |-> id, user_id |-> user, wallet_address |-> addr]

WalletTables ==
    { <<Wallet(1, 1, target_address), Wallet(2, 2, "0xB")>>,
      <<Wallet(2, 2, "0xB")>>,
      <<Wallet(1, 1, target_address), Wallet(3, 1, "0xC"), Wallet(2, 2, "0xB")>> }

-----------------------------------------------------------------------------
(* Pure helpers *)

RECURSIVE SumAmounts(_)
SumAmounts(rows) ==
    IF rows = <<>> THEN 0 ELSE Head(rows).amount + SumAmounts(Tail(rows))

RECURSIVE SelectRows(_, _, _)
SelectRows(rows, profile_id, token) ==
    IF rows = <<>> THEN <<>>
    ELSE LET rest == SelectRows(Tail(rows), profile_id, token)
         IN  IF Head(rows).user_id = profile_id /\ Head(rows).token = token
             THEN <<Head(rows)>> \o rest ELSE rest

\* SELECT COALESCE(SUM(amount), 0) ... WHERE user_id = %s AND token = 'XP'
TotalMinted(rows, profile_id) == SumAmounts(SelectRows(rows, profile_id, "XP"))

\* Mutant: the comparison made strict
has_pending_transaction_strict(rows, profile_id, current_xp) ==
    TotalMinted(rows, profile_id) > current_xp

\* return Decimal(total_minted) >= Decimal(current_xp)
has_pending_transaction(rows, profile_id, current_xp) ==
    TotalMinted(rows, profile_id) >= current_xp

\* Mutant: the whole balance minted
XpToMintAll(xp) == xp

\* xp_to_mint = Decimal(xp - 1)
XpToMint(xp) == xp - 1

\* Mutant: only `if not xp`
NoXpFalsy(xp) == xp = None \/ xp = 0

\* if not xp or xp <= 1
NoXp(xp) == (xp = None \/ xp = 0) \/ xp <= 1

\* Mutant: the hash returned whatever the receipt says
MintXpReturnAlways(status, tx_hash) == tx_hash

\* mint_xp: tx_hash.hex() when receipt.status == 1, else None
MintXpReturn(status, tx_hash) == IF status = 1 THEN tx_hash ELSE NoHash

\* The join of get_users / mint_to_specific_wallet for one wallet row
JoinRow(w) ==
    [username |-> username(w.user_id), profile_id |-> w.user_id,
     xp |-> xp_points[w.user_id], wallet_address |-> w.wallet_address,
     wallet_id |-> w.id]

RECURSIVE EligibleRows(_)
EligibleRows(ws) ==
    IF ws = <<>> THEN <<>>
    ELSE LET rest == EligibleRows(Tail(ws))
         IN  IF xp_points[Head(ws).user_id] > 0
             THEN <<JoinRow(Head(ws))>> \o rest ELSE rest

\* get_users: the query has no ORDER BY, so any order of the rows may come back
get_users ==
    LET rows == EligibleRows(wallets)
        n == Len(rows)
    IN  { [i \in 1..n |-> rows[f[i]]] : f \in Permutations(1..n) }

\* cursor.fetchone() of the single-wallet lookup: << >> when no row matches
TargetRows ==
    LET hit == { i \in 1..Len(wallets) : wallets[i].wallet_address = target_address }
    IN  IF hit = {} THEN <<>>
        ELSE <<JoinRow(wallets[CHOOSE i \in hit : \A j \in hit : i <= j])>>

\* record_transaction(..., status="success", retry_count=0): one INSERT, committed
MintRecord(t, tx_hash, amount, token, status, retry_count) ==
    [wallet_id |-> t.wallet_id, tx_hash |-> tx_hash, user_id |-> t.profile_id,
     amount |-> amount, token |-> token, chain_id |-> CHAIN_ID,
     status |-> status, retry_count |-> retry_count]

\* Mutant: an upsert keyed by wallet instead of a plain INSERT
record_transaction_upsert(rows, row) ==
    Append(SelectSeq(rows, LAMBDA r : r.wallet_id # row.wallet_id), row)

record_transaction(rows, row) == Append(rows, row)

\* Mutant: the pending-mint check made before the try block
RunTryAfterCheck == {"mint_call", "mint", "receipt", "insert"}

\* The calls of run's loop body that sit inside its try block
RunTry == {"pending", "mint_call", "mint", "receipt", "insert"}

\* Mutant: the ledger insert made after the try block
SingleTryMintOnly == {"mint_call", "mint", "receipt"}

\* The calls of mint_to_specific_wallet that sit inside its try block
SingleTry == {"mint_call", "mint", "receipt", "insert"}

\* Mutant: the increment made on every iteration (as in a finally clause)
NextNonceAlways(n, skipped) == n + 1

\* line 173: nonce += 1, not reached after `continue`
NextNonce(n, skipped) == IF skipped THEN n ELSE n + 1

-----------------------------------------------------------------------------
(* mint_xp followed by the `if tx_hash:` branch of its caller.             *)
(* o is what the RPC and the store do: the RPC raises before the           *)
(* transaction is sent; no receipt arrives in time (the transaction is     *)
(* mined later, or dropped); the receipt has status 0; the receipt has     *)
(* status 1 and the ledger insert commits, or raises.                      *)

MintOutcomes ==
    {"raise_before_send", "no_receipt_mined", "no_receipt_dropped", "status0",
     "status1_insert_ok", "status1_insert_raises"}

Tx(t, amount, n, status) ==
    [to |-> t.wallet_address, amount |-> amount, nonce |-> n, status |-> status]

Attempt(t, amount, n, nargs, o) ==
    LET h == Len(chain) + 1 IN
    IF nargs # MintXpParams
    THEN \* TypeError: mint_xp() missing 1 required positional argument
         [chain |-> chain, txCount |-> txCount, ledger |-> ledger,
          lost |-> lost, fault |-> "mint_call"]
    ELSE IF o = "raise_before_send"
    THEN \* build_transaction, gas_price, sign_transaction or send_raw_transaction raises
         [chain |-> chain, txCount |-> txCount, ledger |-> ledger,
          lost |-> lost, fault |-> "mint"]
    ELSE IF o \in {"no_receipt_mined", "no_receipt_dropped"}
    THEN \* wait_for_transaction_receipt raises after 120 s
         [chain |-> Append(chain, Tx(t, amount, n, NoReceipt)),
          txCount |-> IF o = "no_receipt_mined" THEN txCount + 1 ELSE txCount,
          ledger |-> ledger, lost |-> lost, fault |-> "receipt"]
    ELSE LET status == IF o = "status0" THEN 0 ELSE 1
             tx_hash == MintXpReturn(status, h)
             sent == Append(chain, Tx(t, amount, n, status))
         IN  IF tx_hash = NoHash
             THEN [chain |-> sent, txCount |-> txCount + 1, ledger |-> ledger,
                   lost |-> lost, fault |-> "none"]
             ELSE IF o = "status1_insert_raises"
             THEN [chain |-> sent, txCount |-> txCount + 1, ledger |-> ledger,
                   lost |-> lost \cup {h}, fault |-> "insert"]
             ELSE [chain |-> sent, txCount |-> txCount + 1,
                   ledger |-> record_transaction(ledger,
                                 MintRecord(t, tx_hash, amount, "XP", "success", 0)),
                   lost |-> lost, fault |-> "none"]

-----------------------------------------------------------------------------
(* Initial states *)

PriorRow(w, amount, token) ==
    [wallet_id |-> w.id, tx_hash |-> NoHash, user_id |-> w.user_id,
     amount |-> amount, token |-> token, chain_id |-> CHAIN_ID,
     status |-> "success", retry_count |-> 0]

\* Rows that predate the script's runs: none, one earlier XP mint, or one row
\* of another token
PriorLedgers(w) ==
    {<<>>, <<PriorRow(w, MaxXp, "USDT")>>} \cup
    { <<PriorRow(w, a, "XP")>> : a \in 1..MaxXp }

\* Transaction counts the owner account may start with
InitTxCounts == {0, 1}

Init ==
    /\ xp_points \in [Profiles -> XpValues]
    /\ wallets \in WalletTables
    /\ ledger \in PriorLedgers(wallets[1])
    /\ \A p \in Profiles : TotalMinted(ledger, p) > 0 => TotalMinted(ledger, p) <= xp_points[p]
    /\ chain = <<>>
    /\ txCount \in InitTxCounts
    /\ pc = "idle"
    /\ users = <<>>
    /\ idx = 1
    /\ nonce = 0
    /\ nonce0 = 0
    /\ skips = 0
    /\ pending_result = "none"
    /\ iterLedger = ledger
    /\ iterChain = chain
    /\ iterTxCount = txCount
    /\ processed = <<>>
    /\ preLen = Len(ledger)
    /\ lost = {}
    /\ lastOp = "none"
    /\ lastResult = "returned"
    /\ lastFault = "none"
    /\ ops = 0

-----------------------------------------------------------------------------
(* run(), lines 136-146: up to the first iteration of the loop *)

StartOp(op) ==
    /\ pc = "idle"
    /\ ops < MaxOps
    /\ ops' = ops + 1
    /\ lastOp' = op
    /\ iterLedger' = ledger
    /\ iterChain' = chain
    /\ iterTxCount' = txCount
    /\ pending_result' = "none"

Program == <<users, idx, nonce, nonce0, skips, processed>>
Store == <<xp_points, wallets, preLen>>
Effects == <<ledger, chain, txCount, lost>>

RunStart ==
    /\ StartOp("run")
    /\ idx' = 1 /\ skips' = 0 /\ processed' = <<>>
    /\ UNCHANGED <<Store, Effects>>
    /\ \/ \* get_users() raises: nothing catches it
          /\ lastResult' = "raised" /\ lastFault' = "get_users"
          /\ users' = <<>>
          /\ UNCHANGED <<pc, nonce, nonce0>>
       \/ \* if not users: return
          /\ EligibleRows(wallets) = <<>>
          /\ lastResult' = "returned" /\ lastFault' = "none"
          /\ users' = <<>>
          /\ UNCHANGED <<pc, nonce, nonce0>>
       \/ \* get_transaction_count raises: nothing catches it
          /\ EligibleRows(wallets) # <<>>
          /\ lastResult' = "raised" /\ lastFault' = "get_transaction_count"
          /\ \E us \in get_users : users' = us
          /\ UNCHANGED <<pc, nonce, nonce0>>
       \/ /\ EligibleRows(wallets) # <<>>
          /\ \E us \in get_users : users' = us
          /\ nonce' = txCount /\ nonce0' = txCount
          /\ pc' = "run_loop"
          /\ lastResult' = "running" /\ lastFault' = "none"

(* One iteration of the for loop, lines 148-173, and the return after the  *)
(* last one.                                                               *)

Advance(fault, site) ==
    IF fault # "none" /\ site \notin RunTry
    THEN \* the exception leaves run()
         /\ pc' = "idle" /\ lastResult' = "raised" /\ idx' = idx
         /\ UNCHANGED <<nonce, skips>>
    ELSE /\ idx' = idx + 1
         /\ IF idx = Len(users)
            THEN pc' = "idle" /\ lastResult' = "returned"
            ELSE pc' = "run_loop" /\ lastResult' = "running"

RunIter ==
    /\ pc = "run_loop"
    /\ idx <= Len(users)
    /\ LET t == users[idx] IN
       /\ iterLedger' = ledger
       /\ iterChain' = chain
       /\ iterTxCount' = txCount
       /\ processed' = Append(processed, t)
       /\ UNCHANGED <<Store, users, nonce0, lastOp, ops>>
       /\ \/ \* has_pending_transaction raises
             /\ pending_result' = "raised"
             /\ lastFault' = "pending"
             /\ Advance("pending", "pending")
             /\ IF "pending" \in RunTry
                THEN nonce' = NextNonce(nonce, FALSE) /\ skips' = skips
                ELSE TRUE
             /\ UNCHANGED Effects
          \/ \* it returns true: continue
             /\ has_pending_transaction(ledger, t.profile_id, t.xp)
             /\ pending_result' = "True"
             /\ lastFault' = "none"
             /\ Advance("none", "none")
             /\ nonce' = NextNonce(nonce, TRUE) /\ skips' = skips + 1
             /\ UNCHANGED Effects
          \/ \* it returns false: mint
             /\ ~has_pending_transaction(ledger, t.profile_id, t.xp)
             /\ pending_result' = "False"
             /\ \E o \in MintOutcomes :
                  LET r == Attempt(t, XpToMint(t.xp), nonce, RunMintArgs, o) IN
                  /\ chain' = r.chain /\ txCount' = r.txCount
                  /\ ledger' = r.ledger /\ lost' = r.lost
                  /\ lastFault' = r.fault
                  /\ Advance(r.fault, r.fault)
                  /\ IF r.fault = "none" \/ r.fault \in RunTry
                     THEN nonce' = NextNonce(nonce, FALSE) /\ skips' = skips
                     ELSE TRUE

-----------------------------------------------------------------------------
(* mint_to_specific_wallet(), lines 176-233 *)

MintToSpecificWallet ==
    /\ StartOp("single")
    /\ UNCHANGED <<Store, Program, pc>>
    /\ \/ \* the wallet lookup raises: nothing catches it
          /\ lastResult' = "raised" /\ lastFault' = "lookup"
          /\ UNCHANGED Effects
       \/ \* if not result: return
          /\ TargetRows = <<>>
          /\ lastResult' = "returned" /\ lastFault' = "none"
          /\ UNCHANGED Effects
       \/ \* if not xp or xp <= 1: return
          /\ TargetRows # <<>>
          /\ NoXp(TargetRows[1].xp)
          /\ lastResult' = "returned" /\ lastFault' = "none"
          /\ UNCHANGED Effects
       \/ \* get_transaction_count raises: nothing catches it
          /\ TargetRows # <<>>
          /\ ~NoXp(TargetRows[1].xp)
          /\ lastResult' = "raised" /\ lastFault' = "get_transaction_count"
          /\ UNCHANGED Effects
       \/ /\ TargetRows # <<>>
          /\ ~NoXp(TargetRows[1].xp)
          /\ \E o \in MintOutcomes :
               LET t == TargetRows[1]
                   r == Attempt(t, XpToMint(t.xp), txCount, SingleMintArgs, o)
               IN  /\ chain' = r.chain /\ txCount' = r.txCount
                   /\ ledger' = r.ledger /\ lost' = r.lost
                   /\ lastFault' = r.fault
                   /\ lastResult' = IF r.fault # "none" /\ r.fault \notin SingleTry
                                    THEN "raised" ELSE "returned"

-----------------------------------------------------------------------------

Next == RunStart \/ RunIter \/ MintToSpecificWallet

Spec == Init /\ [][Next]_vars

-----------------------------------------------------------------------------
(* Vocabulary of the properties *)

\* The sum of the amounts of the "XP" rows recorded for profile p among the
\* first n rows
RECURSIVE RecordedXp(_, _, _)
RecordedXp(rows, p, n) ==
    IF n = 0 THEN 0
    ELSE RecordedXp(rows, p, n - 1) +
         (IF rows[n].user_id = p /\ rows[n].token = "XP" THEN rows[n].amount ELSE 0)

IsPrefix(a, b) == Len(a) <= Len(b) /\ SubSeq(b, 1, Len(a)) = a

\* Rows written by the script, and those of them that record transaction h
WrittenRows == (preLen + 1)..Len(ledger)
RowsOf(h) == { i \in WrittenRows : ledger[i].tx_hash = h }
Confirmed == { h \in 1..Len(chain) : chain[h].status = 1 }

\* Transactions submitted and rows inserted by the last iteration / operation
NewTx == Len(chain) - Len(iterChain)
NewRows == Len(ledger) - Len(iterLedger)

\* The run reached its loop, and t is the tuple of its last iteration
InLoop == lastOp = "run" /\ processed # <<>>
LastTuple == processed[Len(processed)]

\* The single-wallet operation found its wallet with balance B > 1
SingleFound == lastOp = "single" /\ lastFault # "lookup" /\ TargetRows # <<>>
SingleB == TargetRows[1].xp

-----------------------------------------------------------------------------
(* C1 *)

\* C1 as stated: every mint submission whose receipt has status 1 has exactly
\* one ledger row (status "success", retry_count 0), every other submission
\* has none, and the rows added number the confirmed submissions.
C1_AsStated ==
    /\ \A h \in 1..Len(chain) :
         Cardinality(RowsOf(h)) = (IF chain[h].status = 1 THEN 1 ELSE 0)
    /\ Len(ledger) - preLen = Cardinality(Confirmed)

\* C1 (amended): a mint submission whose receipt has status 1 has exactly one
\* ledger row, with status "success" and retry_count 0, unless the ledger
\* insert itself raised, and then it has none; a submission whose receipt
\* status is not 1 has none; the rows added number the confirmed submissions
\* whose insert did not raise.
C1_RowPerConfirmedMint ==
    /\ \A h \in 1..Len(chain) :
         /\ Cardinality(RowsOf(h)) =
                (IF chain[h].status = 1 /\ h \notin lost THEN 1 ELSE 0)
         /\ \A i \in RowsOf(h) :
                ledger[i].status = "success" /\ ledger[i].retry_count = 0
    /\ lost \subseteq Confirmed
    /\ Len(ledger) - preLen = Cardinality(Confirmed) - Cardinality(lost)

C1_Witness ==
    \E h1, h2 \in 1..Len(chain) :
        /\ chain[h1].status = 1 /\ RowsOf(h1) # {}
        /\ chain[h2].status = 0

-----------------------------------------------------------------------------
(* C2 *)

\* C2 as stated: in batch mode, for a tuple with balance B > 1 and no prior
\* "XP" rows, once the pending-mint check has let it through and unless the
\* RPC itself raised, a mint of B - 1 to its wallet has been submitted, and
\* when the receipt has status 1 and the insert did not raise, a row with
\* amount B - 1, token "XP" and status "success" is written for it.
C2_BatchMintsBalanceMinusOne ==
    ( /\ InLoop
      /\ pending_result = "False"
      /\ LastTuple.xp > 1
      /\ RecordedXp(iterLedger, LastTuple.profile_id, Len(iterLedger)) = 0
      /\ lastFault \notin {"mint"} )
    => /\ NewTx = 1
       /\ chain[Len(chain)].to = LastTuple.wallet_address
       /\ chain[Len(chain)].amount = LastTuple.xp - 1
       /\ (chain[Len(chain)].status = 1 /\ lastFault = "none")
            => /\ NewRows = 1
               /\ ledger[Len(ledger)].amount = LastTuple.xp - 1
               /\ ledger[Len(ledger)].token = "XP"
               /\ ledger[Len(ledger)].status = "success"
               /\ ledger[Len(ledger)].user_id = LastTuple.profile_id
               /\ ledger[Len(ledger)].wallet_id = LastTuple.wallet_id

-----------------------------------------------------------------------------
(* C3 *)

\* C3: the pending-mint check returns true exactly when the "XP" amounts
\* recorded for the profile sum to at least the balance given, false for a
\* profile without rows and a positive balance; a tuple it returns true for
\* is skipped: no transaction is submitted and no row added for it.
C3_PendingCheckSkips ==
    InLoop =>
      LET t == LastTuple
          total == RecordedXp(iterLedger, t.profile_id, Len(iterLedger))
      IN  /\ pending_result = "True" =>
                /\ total >= t.xp
                /\ chain = iterChain /\ ledger = iterLedger /\ txCount = iterTxCount
          /\ pending_result = "False" => total < t.xp
          /\ ( /\ pending_result \in {"True", "False"}
               /\ \A i \in 1..Len(iterLedger) : iterLedger[i].user_id # t.profile_id
               /\ t.xp > 0 ) => pending_result = "False"

C3_Witness ==
    /\ InLoop
    /\ pending_result = "True"
    /\ RecordedXp(iterLedger, LastTuple.profile_id, Len(iterLedger)) = LastTuple.xp

-----------------------------------------------------------------------------
(* C4 *)

\* C4: in single-wallet mode, when the wallet is not found or its balance is
\* absent or <= 1, no transaction is submitted and no row added: the ledger
\* is as it was, and the operation returns.
C4_SingleNoMintWithoutXp ==
    ( /\ lastOp = "single"
      /\ \/ TargetRows = <<>>
         \/ TargetRows[1].xp = None
         \/ TargetRows[1].xp <= 1 )
    => /\ ledger = iterLedger
       /\ chain = iterChain
       /\ txCount = iterTxCount
       /\ lastFault # "lookup" => (lastResult = "returned" /\ lastFault = "none")

C4_Witness ==
    /\ lastOp = "single"
    /\ lastResult = "returned"
    /\ TargetRows # <<>>
    /\ TargetRows[1].xp = 1

-----------------------------------------------------------------------------
(* C5 *)

\* C5 as stated: in single-wallet mode, the wallet found with balance B > 1,
\* exactly one mint of B - 1 is submitted to it with the sequence number
\* fetched from the chain, whatever mints are recorded, and on success
\* (receipt status 1) exactly one row with amount B - 1 is written.
C5_AsStated ==
    (SingleFound /\ SingleB > 1 /\ lastFault # "get_transaction_count")
    => /\ NewTx = 1
       /\ chain[Len(chain)].to = target_address
       /\ chain[Len(chain)].amount = SingleB - 1
       /\ chain[Len(chain)].nonce = iterTxCount
       /\ chain[Len(chain)].status = 1
            => (NewRows = 1 /\ ledger[Len(ledger)].amount = SingleB - 1)
       /\ chain[Len(chain)].status # 1 => NewRows = 0

\* C5 (amended): in single-wallet mode, the wallet found with balance B > 1,
\* at most one mint is submitted, and exactly one unless the sequence-number
\* fetch or the RPC raises before the transaction is sent; it is for B - 1,
\* to that wallet, with the sequence number fetched from the chain, whatever
\* mints are recorded for the profile; when its receipt has status 1 exactly
\* one row with amount B - 1 is written, unless the ledger insert raises, and
\* then none is.
C5_SingleMintsBalanceMinusOne ==
    (SingleFound /\ SingleB > 1)
    => /\ NewTx = (IF lastFault \in {"get_transaction_count", "mint_call", "mint"}
                   THEN 0 ELSE 1)
       /\ NewTx = 1 =>
            /\ chain[Len(chain)].to = target_address
            /\ chain[Len(chain)].amount = SingleB - 1
            /\ chain[Len(chain)].nonce = iterTxCount
            /\ NewRows = (IF chain[Len(chain)].status = 1 /\ lastFault # "insert"
                          THEN 1 ELSE 0)
       /\ NewTx = 0 => NewRows = 0
       /\ NewRows = 1 =>
            /\ IsPrefix(iterLedger, ledger)
            /\ ledger[Len(ledger)].amount = SingleB - 1
            /\ ledger[Len(ledger)].token = "XP"
            /\ ledger[Len(ledger)].user_id = TargetRows[1].profile_id
            /\ ledger[Len(ledger)].wallet_id = TargetRows[1].wallet_id
            /\ ledger[Len(ledger)].tx_hash = Len(chain)

C5_Witness ==
    /\ SingleFound
    /\ SingleB > 1
    /\ RecordedXp(iterLedger, TargetRows[1].profile_id, Len(iterLedger)) >= SingleB
    /\ NewTx = 1
    /\ NewRows = 1
    /\ iterTxCount > 0

-----------------------------------------------------------------------------
(* C6 *)

C6_Step ==
    \/ ledger' = ledger
    \/ /\ Len(ledger') = Len(ledger) + 1
       /\ IsPrefix(ledger, ledger')
       /\ LET row == ledger'[Len(ledger')] IN
            /\ row.status = "success"
            /\ row.retry_count = 0
            /\ row.token = "XP"
            /\ row.tx_hash = Len(chain')
            /\ Len(chain') = Len(chain) + 1
            /\ chain'[Len(chain')].status = 1
            /\ lastFault' = "none"

\* C6: the ledger is append-only: a step leaves the rows there as they are
\* and adds at most one; a row added has status "success", retry_count 0 and
\* token "XP", and is for a mint submitted in that step whose receipt has
\* status 1, with nothing raised.
C6_LedgerAppendOnly == [][C6_Step]_vars

C6_Witness ==
    /\ preLen > 0
    /\ Len(ledger) = preLen + 2
    /\ ledger[1].wallet_id = ledger[Len(ledger)].wallet_id

-----------------------------------------------------------------------------
(* C7 *)

-----------------------------------------------------------------------------
(* C8 *)

\* C8: in batch mode an exception raised while a tuple is processed (by the
\* pending-mint check, the mint or the ledger write) does not end the run:
\* the tuples processed are those of the query, each once and in its order;
\* the run is in its loop exactly while tuples remain, and returns after the
\* last one.
C8_RunSurvivesExceptions ==
    /\ pc = "run_loop" =>
         /\ lastOp = "run" /\ lastResult = "running"
         /\ idx <= Len(users)
         /\ ENABLED RunIter
    /\ (lastOp = "run" /\ (pc = "run_loop" \/ processed # <<>>)) =>
         /\ processed = SubSeq(users, 1, idx - 1)
         /\ pc = "idle" => (processed = users /\ lastResult = "returned")

C8_Witness ==
    /\ lastOp = "run"
    /\ pc = "idle"
    /\ lastResult = "returned"
    /\ processed = users
    /\ Len(users) >= 3
    /\ nonce = nonce0 + 3
    /\ lastFault = "pending"

-----------------------------------------------------------------------------
(* C9 *)

\* C9 as stated: in single-wallet mode a store failure, of the wallet lookup
\* or of the ledger insert after a successful mint, leaves the operation as
\* an exception.
C9_AsStated ==
    (lastOp = "single" /\ lastFault \in {"lookup", "insert"})
    => lastResult = "raised"

\* C9 (amended): in single-wallet mode a failure of the wallet lookup leaves
\* the operation as an exception, nothing submitted or written; a failure of
\* the ledger insert after a successful mint is caught and logged: the
\* operation returns, the mint submitted and no row written.
C9_SingleStoreFailures ==
    lastOp = "single" =>
      /\ lastFault = "lookup" =>
            (lastResult = "raised" /\ chain = iterChain /\ ledger = iterLedger)
      /\ lastFault = "insert" =>
            /\ lastResult = "returned"
            /\ ledger = iterLedger
            /\ NewTx = 1
            /\ chain[Len(chain)].status = 1
            /\ Len(chain) \in lost

C9_Witness ==
    /\ lastOp = "single"
    /\ lastFault = "insert"
    /\ lastResult = "returned"

-----------------------------------------------------------------------------
(* C10 *)

\* C10 as stated: balances unchanged, after any runs of either mode the
\* amounts of the "XP" rows recorded for a profile sum to at most its
\* balance.
C10_RecordedWithinBalance ==
    \A p \in Profiles :
        RecordedXp(ledger, p, Len(ledger)) > 0
            => RecordedXp(ledger, p, Len(ledger)) <= xp_points[p]

====
